---- MODULE Spec2Model ----
(***************************************************************************)
(* Diagnostics DID codec of cantools (cantools/database/diagnostics):      *)
(* a Did owns a list of Data field descriptors and a compiled codec; it    *)
(* encodes a value mapping into bytes and decodes bytes into a mapping,    *)
(* with structured / repeating fields decoded item by item.                *)
(*                                                                         *)
(* Python values are modelled as tagged records (IntV, StrV, NoneV, DictV, *)
(* ListV); a Python int of unbounded width is the set of its one-bits      *)
(* (bit 0 = least significant); bytes are sequences of 0..255.             *)
(***************************************************************************)
EXTENDS Integers, Sequences, FiniteSets, TLC

VARIABLES did, last, db, defaults, threads

vars == <<did, last, db, defaults, threads>>

(***************************************************************************)
(* Bounds of the model.                                                    *)
(***************************************************************************)
\* Longest buffer handed to decode, in bytes.
MaxBufLen == 4

\* Optional[...] = None of an integer attribute (data.py:20-23).
None == -1

(***************************************************************************)
(* Python values.                                                          *)
(***************************************************************************)
IntV(n) == [t |-> "int", i |-> n, s |-> "", d |-> <<>>, l |-> <<>>]

StrV(x) == [t |-> "str", i |-> 0, s |-> x, d |-> <<>>, l |-> <<>>]

NoneV == [t |-> "none", i |-> 0, s |-> "", d |-> <<>>, l |-> <<>>]

DictV(f) == [t |-> "dict", i |-> 0, s |-> "", d |-> f, l |-> <<>>]

ListV(q) == [t |-> "list", i |-> 0, s |-> "", d |-> <<>>, l |-> q]

\* The outcome of a call: a returned value or a raised error.  `who` is the
\* field the error message names ("" when it names none), `num` the number
\* it names.
Ok(v) == [ok |-> TRUE, err |-> "", who |-> "", num |-> 0, val |-> v]

Err(kind, name) == [ok |-> FALSE, err |-> kind, who |-> name, num |-> 0, val |-> NoneV]

\* An error whose message names a number instead of a field.
ErrN(kind, n) == [ok |-> FALSE, err |-> kind, who |-> "", num |-> n, val |-> NoneV]

IsErr(r, kind) == ~r.ok /\ r.err = kind

\* Python truthiness of an Optional[int]: None and 0 are false.
Truthy(x) == x # None /\ x # 0

RECURSIVE Pow2(_)
Pow2(n) == IF n = 0 THEN 1 ELSE 2 * Pow2(n - 1)

Max(a, b) == IF a >= b THEN a ELSE b

Min(a, b) == IF a <= b THEN a ELSE b

SetMax(S) == CHOOSE x \in S : \A y \in S : y <= x

\* data[a:b] of Python on a 1-indexed sequence (0 <= a, b may exceed len).
Slice(data, a, b) ==
    LET lo == Min(a, Len(data))
        hi == Min(Max(b, lo), Len(data))
    IN  [k \in 1..(hi - lo) |-> data[lo + k]]

(***************************************************************************)
(* Data (data.py): one field descriptor.                                   *)
(***************************************************************************)
\* choices: Optional[Choices]; a dict keeps insertion order, so the table is
\* a sequence of <<number, label>> pairs.
NoChoices == [none |-> TRUE, tbl |-> <<>>]

Choices(tbl) == [none |-> FALSE, tbl |-> tbl]

\* _codec = None of a Data / Did.
NoCodec == [none |-> TRUE, datas |-> <<>>, formats |-> [number_of_bytes |-> 0, items |-> <<>>]]

\* Data.__init__: stores the attributes; the bit length of a 'field'
\* quantity with a maximum is maximum * 8; _codec starts as None.
Data(name, start, length, byte_order, scale, offset, minimum, maximum, min_num_of_items, max_num_of_items, choices, qty, sub_elements) ==
    [name |-> name,
     start |-> start,
     length |-> IF qty = "field" /\ Truthy(maximum) THEN maximum * 8 ELSE length,
     byte_order |-> byte_order,
     scale |-> scale,
     offset |-> offset,
     minimum |-> minimum,
     maximum |-> maximum,
     min_num_of_items |-> min_num_of_items,
     max_num_of_items |-> max_num_of_items,
     choices |-> choices,
     qty |-> qty,
     sub_elements |-> sub_elements,
     codec |-> NoCodec]

\* A plain leaf: unsigned, scale 1, offset 0, no choices, one item.
Leaf(name, start, length, byte_order) ==
    Data(name, start, length, byte_order, 1, 0, None, None, 1, 1,
         NoChoices, "atom", <<>>)

\* A scan that answers 0 instead of failing when no entry carries the label.
RECURSIVE ChoiceScanDefault(_, _, _, _)
ChoiceScanDefault(f, tbl, string, k) ==
    IF k > Len(tbl) THEN Ok(0)
    ELSE IF tbl[k][2] = string THEN Ok(tbl[k][1])
    ELSE ChoiceScanDefault(f, tbl, string, k + 1)

\* A scan with the comparison inverted.
RECURSIVE ChoiceScanInverted(_, _, _, _)
ChoiceScanInverted(f, tbl, string, k) ==
    IF k > Len(tbl) THEN Err("UnknownChoiceError", f.name)
    ELSE IF tbl[k][2] # string THEN Ok(tbl[k][1])
    ELSE ChoiceScanInverted(f, tbl, string, k + 1)

\* Data.choice_string_to_number: ValueError without a choice table, the
\* first number (in table order) whose label is the string, KeyError when
\* no entry carries it.
RECURSIVE ChoiceScan(_, _, _, _)
ChoiceScan(f, tbl, string, k) ==
    IF k > Len(tbl) THEN Err("UnknownChoiceError", f.name)
    ELSE IF tbl[k][2] = string THEN Ok(tbl[k][1])
    ELSE ChoiceScan(f, tbl, string, k + 1)

choice_string_to_number(f, string) ==
    IF f.choices.none THEN Err("NoChoicesError", f.name)
    ELSE ChoiceScan(f, f.choices.tbl, string, 1)

(***************************************************************************)
(* The shared codec helpers (cantools/database/utils.py): bit addressing,  *)
(* plan compilation, encode_data and decode_data.                          *)
(***************************************************************************)
\* Network index (0 = most significant bit of byte 0) of bit j of a field's
\* raw value, j = 0 being its least significant bit.  A little-endian field
\* has its least significant bit at `start` (bit 0 = LSB of byte 0); a
\* big-endian field has its most significant bit at `start` and runs on
\* towards the less significant bits and the following bytes.
NetBit(f, j) ==
    IF f.byte_order = "big_endian"
    THEN 8 * (f.start \div 8) + (7 - (f.start % 8)) + (f.length - 1 - j)
    ELSE 8 * ((f.start + j) \div 8) + (7 - ((f.start + j) % 8))

\* The bytes a field touches end before this byte index.
EndByte(f) == (SetMax({NetBit(f, j) : j \in 0..(f.length - 1)}) \div 8) + 1

\* create_encode_decode_formats(datas, number_of_bytes): per field the
\* extraction parameters frozen at compile time, and the plan's byte length.
create_encode_decode_formats(datas, number_of_bytes) ==
    [number_of_bytes |-> number_of_bytes,
     items |-> [k \in 1..Len(datas) |->
                  [name |-> datas[k].name,
                   start |-> datas[k].start,
                   length |-> datas[k].length,
                   byte_order |-> datas[k].byte_order]]]

\* Bytes the plan's packed form has: its declared length, or more when a
\* field reaches beyond it.
PackedBytes(formats) ==
    SetMax({formats.number_of_bytes} \cup {EndByte(formats.items[k]) : k \in 1..Len(formats.items)})

\* Bit j of a natural number below 2^30.
BitOf(n, j) == IF j >= 30 THEN 0 ELSE (n \div Pow2(j)) % 2

\* round((physical - offset) / scale) for scale > 0.
RawOf(f, physical) == (2 * (physical - f.offset) + f.scale) \div (2 * f.scale)

\* physical = raw * scale + offset.
PhysicalOf(f, raw) == raw * f.scale + f.offset

\* The first field of the plan the mapping has no entry for, 0 when the
\* mapping names them all.
FirstMissing(data, datas) ==
    LET ms == {k \in 1..Len(datas) : datas[k].name \notin DOMAIN data}
    IN  IF ms = {} THEN 0 ELSE CHOOSE k \in ms : \A m \in ms : k <= m

\* One field of encode_data: the mapping's entry for the field's name, a
\* label translated by the field's choice table, a number scaled to its raw
\* value.
EncodeField(f, data, scaling) ==
    IF data[f.name].t = "str" THEN choice_string_to_number(f, data[f.name].s)
    ELSE IF scaling THEN Ok(RawOf(f, data[f.name].i))
    ELSE Ok(data[f.name].i)

\* The fields are resolved one by one; the first failure ends the call.
RECURSIVE EncodeFields(_, _, _, _, _)
EncodeFields(data, datas, scaling, k, raws) ==
    IF k > Len(datas) THEN Ok(raws)
    ELSE LET r == EncodeField(datas[k], data, scaling)
         IN  IF r.ok THEN EncodeFields(data, datas, scaling, k + 1, Append(raws, r.val))
             ELSE r

\* encode_data: a field without an entry in the mapping is not defaulted,
\* the call fails naming it; else the raw bits of every field are placed at
\* the field's position, as the integer whose big-endian bytes are the
\* packed record.
encode_data(data, datas, formats, scaling) ==
    LET r == EncodeFields(data, datas, scaling, 1, <<>>)
        top == 8 * PackedBytes(formats) - 1
        missing == FirstMissing(data, datas)
    IN  IF missing # 0 THEN Err("MissingFieldError", datas[missing].name)
        ELSE IF ~r.ok THEN r
        ELSE Ok(UNION {{top - NetBit(formats.items[k], j) :
                           j \in {b \in 0..(formats.items[k].length - 1) : BitOf(r.val[k], b) = 1}} :
                       k \in 1..Len(datas)})

\* The fields of a plan whose bits all lie inside `data`.
Covered(data, formats) ==
    {k \in 1..Len(formats.items) : EndByte(formats.items[k]) <= Len(data)}

\* Bit at network index n of a byte sequence.
DataBit(data, n) == (data[(n \div 8) + 1] \div Pow2(7 - (n % 8))) % 2

RECURSIVE RawBits(_, _, _)
RawBits(data, item, j) ==
    IF j >= item.length THEN 0
    ELSE DataBit(data, NetBit(item, j)) * Pow2(j) + RawBits(data, item, j + 1)

RECURSIVE ChoiceLookup(_, _, _)
ChoiceLookup(tbl, raw, k) ==
    IF k > Len(tbl) THEN NoneV
    ELSE IF tbl[k][1] = raw THEN StrV(tbl[k][2])
    ELSE ChoiceLookup(tbl, raw, k + 1)

\* One field of decode_data: the raw bits, replaced by the label when
\* decode_choices and the choice table holds the raw value, else scaled.
DecodeField(f, item, data, decode_choices, scaling) ==
    LET raw == RawBits(data, item, 0)
        label == IF decode_choices /\ ~f.choices.none
                 THEN ChoiceLookup(f.choices.tbl, raw, 1) ELSE NoneV
    IN  IF label # NoneV THEN label
        ELSE IF scaling THEN IntV(PhysicalOf(f, raw))
        ELSE IntV(raw)

\* decode_data fails when the buffer is shorter than the plan and truncation
\* is not allowed; with allow_truncated the fields outside the buffer are
\* left out of the result.
DecodeShort(data, expected_length, formats) ==
    Len(data) < expected_length \/ Covered(data, formats) # 1..Len(formats.items)

decode_data(data, expected_length, datas, formats, decode_choices, scaling, allow_truncated) ==
    IF DecodeShort(data, expected_length, formats) /\ ~allow_truncated
    THEN Err("BufferTooShortError", "")
    ELSE LET ks == Covered(data, formats)
             at(n) == CHOOSE k \in ks : datas[k].name = n /\ \A m \in ks : datas[m].name = n => m <= k
         IN  Ok(DictV([n \in {datas[k].name : k \in ks} |->
                          DecodeField(datas[at(n)], formats.items[at(n)], data, decode_choices, scaling)]))

(***************************************************************************)
(* Did (did.py).                                                           *)
(***************************************************************************)
\* A sub-plan sized by minimum // min_num_of_items.
SubCodecMinimum(f) ==
    [none |-> FALSE,
     datas |-> f.sub_elements,
     formats |-> create_encode_decode_formats(f.sub_elements,
                    IF Truthy(f.minimum) /\ Truthy(f.min_num_of_items)
                    THEN f.minimum \div f.min_num_of_items
                    ELSE f.length \div 8)]

\* The sub-plan Did.refresh compiles for a field with sub_elements: its
\* per-item byte size is maximum // max_num_of_items for a 'field' quantity
\* with both set, else length // 8.
SubCodec(f) ==
    [none |-> FALSE,
     datas |-> f.sub_elements,
     formats |-> create_encode_decode_formats(f.sub_elements,
                    IF f.qty = "field" /\ Truthy(f.max_num_of_items) /\ Truthy(f.maximum)
                    THEN f.maximum \div f.max_num_of_items
                    ELSE f.length \div 8)]

\* Did.refresh: every field with sub_elements gets its sub-plan (the others
\* keep the _codec they have), then the Did's own plan is compiled from
\* _datas and _length.
refresh(d) ==
    LET datas == [k \in 1..Len(d.datas) |->
                    IF d.datas[k].sub_elements # <<>>
                    THEN [d.datas[k] EXCEPT !.codec = SubCodec(d.datas[k])]
                    ELSE d.datas[k]]
    IN  [d EXCEPT !.datas = datas,
                  !.codec = [none |-> FALSE,
                             datas |-> datas,
                             formats |-> create_encode_decode_formats(datas, d.length)]]

\* A Did.__init__ that stores its arguments and does not refresh.
DidUnrefreshed(identifier, name, length, datas) ==
    [identifier |-> identifier, name |-> name, length |-> length,
     datas |-> datas, codec |-> NoCodec]

\* Did.__init__: stores the arguments and refreshes.
Did(identifier, name, length, datas) ==
    refresh([identifier |-> identifier, name |-> name, length |-> length,
             datas |-> datas, codec |-> NoCodec])

\* An encode without the guard bit.
GuardNone(length) == {}

\* 0x80 << (8 * length): the guard bit above the record's bytes.
Guard(length) == {8 * length + 7}

\* Hex digit p (0 = least significant) of an integer given by its one-bits.
Nibble(bits, p) ==
    (IF 4 * p \in bits THEN 1 ELSE 0) + (IF 4 * p + 1 \in bits THEN 2 ELSE 0)
    + (IF 4 * p + 2 \in bits THEN 4 ELSE 0) + (IF 4 * p + 3 \in bits THEN 8 ELSE 0)

\* hex(n) without its '0x': the digits, most significant first, no leading
\* zero ('0' for 0).
HexDigits(bits) ==
    LET n == IF bits = {} THEN 1 ELSE (SetMax(bits) \div 4) + 1
    IN  [i \in 1..n |-> Nibble(bits, n - i)]

\* An unhexlify with the two digits of a byte swapped.
unhexlifySwapped(digits) ==
    IF Len(digits) % 2 = 1 THEN Err("binascii.Error", "")
    ELSE Ok([k \in 1..(Len(digits) \div 2) |-> digits[2 * k - 1] + 16 * digits[2 * k]])

\* binascii.unhexlify: two digits a byte, an error on an odd number.
unhexlify(digits) ==
    IF Len(digits) % 2 = 1 THEN Err("binascii.Error", "")
    ELSE Ok([k \in 1..(Len(digits) \div 2) |-> 16 * digits[2 * k - 1] + digits[2 * k]])

\* An encode that gives 0 to every field the mapping leaves out.
encodeDefaulting(d, data, scaling) ==
    LET names == {d.codec.datas[k].name : k \in 1..Len(d.codec.datas)}
        filled == [n \in DOMAIN data \cup names |-> IF n \in DOMAIN data THEN data[n] ELSE IntV(0)]
        r == encode_data(filled, d.codec.datas, d.codec.formats, scaling)
    IN  IF ~r.ok THEN r
        ELSE LET encoded == r.val \cup Guard(d.length)
                 hexs == HexDigits(encoded)
                 b == unhexlify(SubSeq(hexs, 3, Len(hexs)))
             IN  IF ~b.ok THEN b ELSE Ok(Slice(b.val, 0, d.length))

\* Did.encode: encode_data over the compiled plan, the guard bit or-ed in,
\* hex(encoded)[4:] (the '0x' and the guard's two digits dropped),
\* unhexlify, and the first _length bytes.
encode(d, data, scaling) ==
    LET r == encode_data(data, d.codec.datas, d.codec.formats, scaling)
    IN  IF ~r.ok THEN r
        ELSE LET encoded == r.val \cup Guard(d.length)
                 hexs == HexDigits(encoded)
                 b == unhexlify(SubSeq(hexs, 3, Len(hexs)))
             IN  IF ~b.ok THEN b ELSE Ok(Slice(b.val, 0, d.length))

\* _iter_len = minimum // min_num_of_items.
IterLen(f) ==
    IF f.minimum = None \/ f.min_num_of_items = None THEN Err("TypeError", "")
    ELSE IF f.min_num_of_items = 0 THEN Err("ZeroDivisionError", "")
    ELSE Ok(f.minimum \div f.min_num_of_items)

\* A short-slice test that ignores allow_truncated.
TooShortIgnoresFlag(f, i, allow_truncated) == i < f.min_num_of_items

\* A short slice is an error for an item below min_num_of_items unless
\* truncation is allowed.
TooShort(f, i, allow_truncated) == i < f.min_num_of_items /\ ~allow_truncated

\* An offset that never advances.
NextOffsetStuck(byte_offset, sub_data) == byte_offset

\* _byte_offset += len(_sub_data).
NextOffset(byte_offset, sub_data) == byte_offset + Len(sub_data)

\* An item loop without the break after the absent sentinel.
RECURSIVE ItemLoopNoBreak(_, _, _, _, _, _, _, _, _)
ItemLoopNoBreak(f, data, iter_len, i, byte_offset, dec_data_list, decode_choices, scaling, allow_truncated) ==
    IF i >= f.max_num_of_items THEN Ok(dec_data_list)
    ELSE LET sub_data == Slice(data, (f.start \div 8) + byte_offset,
                               (f.start \div 8) + iter_len + byte_offset)
         IN  IF Len(sub_data) < iter_len
             THEN IF TooShort(f, i, allow_truncated)
                  THEN ErrN("BufferTooShortError", f.min_num_of_items)
                  ELSE ItemLoopNoBreak(f, data, iter_len, i + 1, NextOffset(byte_offset, sub_data),
                                       Append(dec_data_list, NoneV),
                                       decode_choices, scaling, allow_truncated)
             ELSE LET r == decode_data(sub_data, Len(sub_data), f.codec.datas,
                                       f.codec.formats, decode_choices, scaling, allow_truncated)
                  IN  IF ~r.ok THEN r
                      ELSE ItemLoopNoBreak(f, data, iter_len, i + 1, NextOffset(byte_offset, sub_data),
                                           Append(dec_data_list, r.val),
                                           decode_choices, scaling, allow_truncated)

\* The item loop of Did.decode for one field with a sub-plan, from item i on.
RECURSIVE ItemLoop(_, _, _, _, _, _, _, _, _)
ItemLoop(f, data, iter_len, i, byte_offset, dec_data_list, decode_choices, scaling, allow_truncated) ==
    IF i >= f.max_num_of_items THEN Ok(dec_data_list)
    ELSE LET sub_data == Slice(data, (f.start \div 8) + byte_offset,
                               (f.start \div 8) + iter_len + byte_offset)
         IN  IF Len(sub_data) < iter_len
             THEN IF TooShort(f, i, allow_truncated)
                  THEN ErrN("BufferTooShortError", f.min_num_of_items)
                  ELSE Ok(Append(dec_data_list, NoneV))
             ELSE LET r == decode_data(sub_data, Len(sub_data), f.codec.datas,
                                       f.codec.formats, decode_choices, scaling, allow_truncated)
                  IN  IF ~r.ok THEN r
                      ELSE ItemLoop(f, data, iter_len, i + 1, NextOffset(byte_offset, sub_data),
                                    Append(dec_data_list, r.val),
                                    decode_choices, scaling, allow_truncated)

\* A collapse test that only asks for equal item bounds.
CollapseEq(f) == f.min_num_of_items = f.max_num_of_items

\* min_num_of_items == max_num_of_items == 1: not a list.
Collapse(f) == f.min_num_of_items = 1 /\ f.max_num_of_items = 1

\* The value Did.decode stores for a field with a sub-plan: the only item
\* when min_num_of_items == max_num_of_items == 1, else the list.
DecodeSub(f, data, decode_choices, scaling, allow_truncated) ==
    LET il == IterLen(f)
    IN  IF ~il.ok THEN il
        ELSE IF f.max_num_of_items = None THEN Err("TypeError", "")
        ELSE LET r == ItemLoop(f, data, il.val, 0, 0, <<>>, decode_choices, scaling, allow_truncated)
             IN  IF ~r.ok THEN r
                 ELSE IF Collapse(f) THEN Ok(r.val[1])
                 ELSE Ok(ListV(r.val))

\* decoded_data[name] = value.
Put(decoded, name, value) ==
    [n \in DOMAIN decoded \cup {name} |-> IF n = name THEN value ELSE decoded[n]]

\* `for sub_data_obj in self.datas`: the fields with a sub-plan, in order.
RECURSIVE SubLoop(_, _, _, _, _, _, _)
SubLoop(d, data, decode_choices, scaling, allow_truncated, k, decoded_data) ==
    IF k > Len(d.datas) THEN Ok(DictV(decoded_data))
    ELSE IF d.datas[k].codec.none
    THEN SubLoop(d, data, decode_choices, scaling, allow_truncated, k + 1, decoded_data)
    ELSE LET r == DecodeSub(d.datas[k], data, decode_choices, scaling, allow_truncated)
         IN  IF ~r.ok THEN r
             ELSE SubLoop(d, data, decode_choices, scaling, allow_truncated, k + 1,
                          Put(decoded_data, d.datas[k].name, r.val))

\* A decode that takes the fields with a sub-plan from the compiled list.
decodeCompiledList(d, data, decode_choices, scaling, allow_truncated) ==
    LET top == decode_data(data, d.length, d.codec.datas, d.codec.formats,
                           decode_choices, scaling, allow_truncated)
    IN  IF ~top.ok THEN top
        ELSE SubLoop([d EXCEPT !.datas = d.codec.datas], data, decode_choices, scaling,
                     allow_truncated, 1, top.val.d)

\* Did.decode: decode_data over the compiled plan, then every field with a
\* sub-plan replaced by its decoded items.
decode(d, data, decode_choices, scaling, allow_truncated) ==
    LET top == decode_data(data, d.length, d.codec.datas, d.codec.formats,
                           decode_choices, scaling, allow_truncated)
    IN  IF ~top.ok THEN top
        ELSE SubLoop(d, data, decode_choices, scaling, allow_truncated, 1, top.val.d)

(***************************************************************************)
(* The records the model runs on.                                          *)
(***************************************************************************)
LE == "little_endian"

BE == "big_endian"

OnOff == Choices(<< <<0, "OFF">>, <<1, "ON">> >>)

\* A table with a label carried by two numbers.
Gears == Choices(<< <<0, "OFF">>, <<1, "ON">>, <<2, "ON">> >>)

\* Two byte-wide leaves.
FooDid == Did(1, "Foo", 2, << Leaf("Bar", 0, 8, LE), Leaf("Fum", 8, 8, LE) >>)

\* Leaves of both byte orders sharing a byte, one bit unused.
BitsDid == Did(2, "Bits", 1, << Leaf("A", 0, 3, LE), Leaf("B", 7, 4, BE) >>)

\* A 16-bit leaf of each byte order.
WordDid == Did(3, "Word", 4, << Leaf("W", 7, 16, BE), Leaf("V", 16, 16, LE) >>)

\* Choice fields: F plain, G scaled and with a repeated label.
ChoiceDid ==
    Did(4, "Choice", 1,
        << Data("F", 0, 4, LE, 1, 0, None, None, 1, 1, OnOff, "atom", <<>>),
           Data("G", 4, 4, LE, 2, 1, None, None, 1, 1, Gears, "atom", <<>>) >>)

\* A leaf followed by a one-item struct of two nibbles.
StructDid ==
    Did(5, "Struct", 2,
        << Leaf("Id", 0, 8, LE),
           Data("S", 15, 8, BE, 1, 0, 1, 1, 1, 1, NoChoices, "atom",
                << Leaf("X", 0, 4, LE), Data("Y", 4, 4, LE, 1, 0, None, None, 1, 1, OnOff, "atom", <<>>) >>) >>)

\* A repeating group of 2..5 one-byte items in a three-byte record, its
\* own bit length one byte.
RepDid ==
    Did(6, "Rep", 3,
        << Data("R", 7, 8, BE, 1, 0, 2, 5, 2, 5, NoChoices, "atom", << Leaf("X", 0, 8, LE) >>) >>)

\* The same group as a 'field' quantity: its bit length is maximum * 8.
RepFieldDid ==
    Did(7, "RepField", 5,
        << Data("R", 7, 8, BE, 1, 0, 2, 5, 2, 5, NoChoices, "field", << Leaf("X", 0, 8, LE) >>) >>)

\* A group of exactly two two-byte items in a three-byte record.
PairDid ==
    Did(8, "Pair", 3,
        << Data("P", 7, 16, BE, 1, 0, 4, 4, 2, 2, NoChoices, "atom",
                << Leaf("X", 0, 8, LE), Leaf("Y", 15, 8, BE) >>) >>)

\* A 'field' group of 1..2 one-byte items, followed by a leaf.
TailDid ==
    Did(11, "Tail", 3,
        << Data("R", 7, 8, BE, 1, 0, 1, 2, 1, 2, NoChoices, "field", << Leaf("X", 0, 8, LE) >>),
           Leaf("T", 16, 8, LE) >>)

\* An optional repeating group: min_num_of_items = 0.
OptDid ==
    Did(9, "Opt", 2,
        << Data("O", 7, 8, BE, 1, 0, 0, 2, 0, 2, NoChoices, "field", << Leaf("X", 0, 8, LE) >>) >>)

\* A plain struct without byte bounds: minimum = None.
PlainDid ==
    Did(10, "Plain", 1,
        << Data("S", 7, 8, BE, 1, 0, None, None, 1, 1, NoChoices, "atom", << Leaf("X", 0, 8, LE) >>) >>)

\* A record without fields.
EmptyDid == Did(12, "Empty", 0, <<>>)

Records == << FooDid, BitsDid, WordDid, ChoiceDid, StructDid, RepDid, RepFieldDid, PairDid, OptDid, PlainDid, TailDid, EmptyDid >>

\* Byte values of the buffers handed to decode.
ByteVals == {0, 1, 69}

Buffers == UNION {[1..n -> ByteVals] : n \in 0..MaxBufLen}

Labels == {"ON", "OFF", "BAD"}

\* Values offered to encode for one field: numbers the field can hold
\* (physical when scaling, raw otherwise) and labels.
Samples(f, scaling) ==
    LET raws == {0, 1, 5, Pow2(Min(f.length, 16)) - 1} \cap 0..(Pow2(Min(f.length, 16)) - 1)
    IN  {IntV(IF scaling THEN PhysicalOf(f, r) ELSE r) : r \in raws} \cup {StrV("ON"), StrV("BAD")}

\* The value mappings offered to encode: every field of the record either
\* absent or given one of its samples.
Mappings(d, scaling) ==
    LET names == {d.datas[k].name : k \in 1..Len(d.datas)}
        fld(n) == CHOOSE f \in {d.datas[k] : k \in 1..Len(d.datas)} : f.name = n
        all == UNION {Samples(d.datas[k], scaling) : k \in 1..Len(d.datas)} \cup {NoneV}
        full == {g \in [names -> all] : \A n \in names : g[n] = NoneV \/ g[n] \in Samples(fld(n), scaling)}
    IN  {[n \in {m \in names : g[m] # NoneV} |-> g[n]] : g \in full}

(***************************************************************************)
(* The Database.  Objects are held by reference: a Did is named by the     *)
(* variant, the group and the position that hold it, a Dtc by its variant  *)
(* and position, the selected variant by its position in the variant list  *)
(* (0 for None).  A dictionary is a function of its keys.                  *)
(***************************************************************************)
Dtc(identifier, name) == [identifier |-> identifier, name |-> name]

\* One entry of Variant.diag_groups: the key and the value stored under it,
\* a list of Dids or a DiagnosticGroup object (which holds its Dids in
\* .dids and cannot be iterated).
GroupList(name, dids) == [name |-> name, object |-> FALSE, dids |-> dids]

DiagnosticGroup(name, dids) == [name |-> name, object |-> TRUE, dids |-> dids]

Variant(name, diag_groups, dtcs) ==
    [t |-> "Variant", name |-> name, dtcs |-> dtcs, diag_groups |-> diag_groups]

\* obj.name for an element of the variant list.
NameOf(var) == IF var.t = "Variant" THEN Ok(StrV(var.name)) ELSE Err("AttributeError", "name")

\* dict[key] = value.
DictPut(f, key, value) == [x \in DOMAIN f \cup {key} |-> IF x = key THEN value ELSE f[x]]

\* The reference None.
NoRef == <<>>

\* dict.get(key, None).
DictGet(f, key) == IF key \in DOMAIN f THEN f[key] ELSE NoRef

DidAt(self, ref) == self.variants[ref[1]].diag_groups[ref[2]].dids[ref[3]]

DtcAt(self, ref) == self.variants[ref[1]].dtcs[ref[2]]

\* The Did a reference names, or None.
DidObject(self, ref) == IF ref = NoRef THEN NoneV ELSE [ref |-> ref, obj |-> DidAt(self, ref)]

DtcObject(self, ref) == IF ref = NoRef THEN NoneV ELSE [ref |-> ref, obj |-> DtcAt(self, ref)]

\* A Database.refresh that leaves the Dids as they are.
RefreshDidSkipped(self, ref) == self

\* did.refresh() on a Did of the database.
RefreshDid(self, ref) ==
    [self EXCEPT !.variants[ref[1]].diag_groups[ref[2]].dids[ref[3]] = refresh(@)]

_add_did(self, ref) ==
    [self EXCEPT !.name_to_did = DictPut(@, DidAt(self, ref).name, ref),
               !.identifier_to_did = DictPut(@, DidAt(self, ref).identifier, ref)]

_add_dtc(self, ref) ==
    [self EXCEPT !.name_to_dtc = DictPut(@, DtcAt(self, ref).name, ref),
               !.identifier_to_dtc = DictPut(@, DtcAt(self, ref).identifier, ref)]

\* The loops of Database.refresh: the Dids of one group, the groups of the
\* selected variant, its Dtcs.  Each gives the database and the outcome.
RECURSIVE DtcLoop(_, _, _)
DtcLoop(self, v, k) ==
    IF k > Len(self.variants[v].dtcs) THEN [db |-> self, out |-> Ok(NoneV)]
    ELSE DtcLoop(_add_dtc(self, <<v, k>>), v, k + 1)

RECURSIVE GroupLoop(_, _, _)
RECURSIVE DidLoop(_, _, _, _)
DidLoop(self, v, g, k) ==
    IF k > Len(self.variants[v].diag_groups[g].dids) THEN GroupLoop(self, v, g + 1)
    ELSE DidLoop(_add_did(RefreshDid(self, <<v, g, k>>), <<v, g, k>>), v, g, k + 1)

GroupLoop(self, v, g) ==
    IF g > Len(self.variants[v].diag_groups) THEN DtcLoop(self, v, 1)
    ELSE IF self.variants[v].diag_groups[g].object
         THEN [db |-> self, out |-> Err("TypeError", self.variants[v].diag_groups[g].name)]
         ELSE DidLoop(self, v, g, 1)

\* Database.refresh.
Database_refresh(self) ==
    LET reset == [self EXCEPT !.name_to_did = <<>>, !.identifier_to_did = <<>>,
                            !.name_to_dtc = <<>>, !.identifier_to_dtc = <<>>]
    IN  IF self.selected_variant # 0 THEN GroupLoop(reset, self.selected_variant, 1)
        ELSE [db |-> reset, out |-> Ok(NoneV)]

\* Database.__init__.
Database(protocol_services, variants) ==
    Database_refresh([name_to_did |-> <<>>, identifier_to_did |-> <<>>,
                      name_to_dtc |-> <<>>, identifier_to_dtc |-> <<>>,
                      protocol_services |-> protocol_services,
                      variants |-> variants,
                      selected_variant |-> 0]).db

\* The while loop of select_variant: the first position holding the name,
\* one past the list when none does.
RECURSIVE VariantScan(_, _, _)
VariantScan(self, variant_name, i) ==
    IF i > Len(self.variants) THEN Ok(IntV(i))
    ELSE LET n == NameOf(self.variants[i])
         IN  IF ~n.ok THEN n
             ELSE IF n.val.s # variant_name THEN VariantScan(self, variant_name, i + 1)
             ELSE Ok(IntV(i))

\* A select_variant that deselects and refreshes before it raises.
select_variant_clearing(self, variant_name) ==
    LET i == VariantScan(self, variant_name, 1)
    IN  IF ~i.ok THEN [db |-> self, out |-> i]
        ELSE IF i.val.i <= Len(self.variants)
             THEN Database_refresh([self EXCEPT !.selected_variant = i.val.i])
             ELSE [db |-> Database_refresh([self EXCEPT !.selected_variant = 0]).db,
                   out |-> Err("ValueError", variant_name)]

select_variant(self, variant_name) ==
    LET i == VariantScan(self, variant_name, 1)
    IN  IF ~i.ok THEN [db |-> self, out |-> i]
        ELSE IF i.val.i <= Len(self.variants)
             THEN Database_refresh([self EXCEPT !.selected_variant = i.val.i])
             ELSE [db |-> self, out |-> Err("ValueError", variant_name)]

get_did_by_name(self, name) == DidObject(self, DictGet(self.name_to_did, name))

get_did_by_identifier(self, identifier) == DidObject(self, DictGet(self.identifier_to_did, identifier))

get_dtc_by_name(self, name) == DtcObject(self, DictGet(self.name_to_dtc, name))

get_dtc_by_identifier(self, identifier) == DtcObject(self, DictGet(self.identifier_to_dtc, identifier))

\* A call of a constructor: Python raises TypeError for a keyword argument
\* the signature does not name.
New(parameters, keywords, object) ==
    IF keywords \subseteq parameters THEN Ok(object)
    ELSE Err("TypeError", CHOOSE k \in keywords \ parameters : TRUE)

\* InternalDatabase.__init__.
InternalDatabase(protocol_services, variants) ==
    [protocol_services |-> protocol_services, variants |-> variants]

\* cdd.load_string on a well-formed document, given as what the loaders
\* read from it: the names of its variants and its protocol services.
load_string(string, diagnostics_variant) ==
    LET variant_names == [j \in 1..Len(string.variants) |-> StrV(string.variants[j])]
    IN  New({"protocol_services", "variants"},
            {"protocol_services", "variants", "dids", "dtcs"},
            InternalDatabase(string.protocol_services, variant_names))

\* Database.add_cdd_string.
add_cdd_string(self, string, diagnostics_variant) ==
    LET database == load_string(string, diagnostics_variant)
    IN  IF ~database.ok THEN [db |-> self, out |-> database]
        ELSE LET added == [self EXCEPT !.protocol_services = @ \o database.val.protocol_services,
                                     !.variants = @ \o database.val.variants]
             IN  IF diagnostics_variant # "" THEN select_variant(added, diagnostics_variant)
                 ELSE IF added.variants = <<>> THEN [db |-> added, out |-> Err("IndexError", "variants")]
                 ELSE LET n == NameOf(added.variants[1])
                      IN  IF ~n.ok THEN [db |-> added, out |-> n]
                          ELSE select_variant(added, n.val.s)

\* A database that was never constructed: the state of a run that has none.
NoDatabase == Database(<<>>, <<>>)

(***************************************************************************)
(* The default of the sub_elements parameter of Data.__init__ is one list  *)
(* object, made when the function is defined: `sub_elements` is its        *)
(* contents and `holders` the fields of the Did (by position) whose        *)
(* sub_elements attribute is that object.                                  *)
(***************************************************************************)
NoDefaults == [sub_elements |-> <<>>, holders |-> {}]

\* A run without threads.
NoThreads == <<>>

(***************************************************************************)
(* The state machine: one Did, and the call made on it.  Calls are          *)
(* synchronous: a call runs to its outcome, the caller takes the outcome,  *)
(* and only then is the next call made.                                    *)
(***************************************************************************)
Call(op, arg, decode_choices, scaling, allow_truncated, out) ==
    [op |-> op, arg |-> arg, decode_choices |-> decode_choices, scaling |-> scaling,
     allow_truncated |-> allow_truncated, out |-> out]

Idle == Call("idle", <<>>, FALSE, FALSE, FALSE, Ok(NoneV))

Init ==
    /\ \E r \in 1..Len(Records) : did = Records[r]
    /\ last = Idle
    /\ db = NoDatabase
    /\ defaults = NoDefaults
    /\ threads = NoThreads

Encode ==
    /\ last.op = "idle"
    /\ \E scaling \in BOOLEAN : \E data \in Mappings(did, scaling) :
        /\ last' = Call("encode", data, FALSE, scaling, FALSE, encode(did, data, scaling))
        /\ UNCHANGED <<did, db, defaults, threads>>

Decode ==
    /\ last.op = "idle"
    /\ \E data \in Buffers : \E decode_choices, scaling, allow_truncated \in BOOLEAN :
        /\ last' = Call("decode", data, decode_choices, scaling, allow_truncated,
                        decode(did, data, decode_choices, scaling, allow_truncated))
        /\ UNCHANGED <<did, db, defaults, threads>>

ChoiceStringToNumber ==
    /\ last.op = "idle"
    /\ \E k \in 1..Len(did.datas) : \E string \in Labels :
        /\ last' = Call("choice_string_to_number", <<k, string>>, FALSE, FALSE, FALSE,
                        choice_string_to_number(did.datas[k], string))
        /\ UNCHANGED <<did, db, defaults, threads>>

Refresh ==
    /\ last.op = "idle"
    /\ did' = refresh(did)
    /\ last' = Call("refresh", <<>>, FALSE, FALSE, FALSE, Ok(NoneV))
    /\ UNCHANGED <<db, defaults, threads>>

\* The caller takes the outcome of the call.
Return ==
    /\ last.op # "idle"
    /\ last' = Idle
    /\ UNCHANGED <<did, db, defaults, threads>>

Next == Encode \/ Decode \/ ChoiceStringToNumber \/ Refresh \/ Return

Spec == Init /\ [][Next]_vars

(***************************************************************************)
(* A Did under edit: its field list, its length and the sub_elements of    *)
(* its fields are replaced between refreshes.                              *)
(***************************************************************************)
\* A lookup that returns the last field of the name.
RECURSIVE DataScanLast(_, _, _)
DataScanLast(d, name, k) ==
    IF k > Len(d.datas) THEN Err("FieldNotFoundError", name)
    ELSE LET r == DataScanLast(d, name, k + 1)
         IN  IF r.ok THEN r
             ELSE IF d.datas[k].name = name THEN Ok(d.datas[k]) ELSE r

\* Did.get_data_by_name: the first Data of _datas with the name, KeyError
\* when there is none.
RECURSIVE DataScan(_, _, _)
DataScan(d, name, k) ==
    IF k > Len(d.datas) THEN Err("FieldNotFoundError", name)
    ELSE IF d.datas[k].name = name THEN Ok(d.datas[k])
    ELSE DataScan(d, name, k + 1)

get_data_by_name(d, name) == DataScan(d, name, 1)

\* `field.sub_elements = value` on field k of the Did's list.  The compiled
\* plan holds the list it was compiled from: while that is still the Did's
\* list, the plan sees the same Data objects.
SetSub(d, k, value) ==
    LET datas == [d.datas EXCEPT ![k].sub_elements = value]
    IN  IF d.datas = d.codec.datas
        THEN [d EXCEPT !.datas = datas, !.codec.datas = datas]
        ELSE [d EXCEPT !.datas = datas]

FooList == << Leaf("Bar", 0, 8, LE), Leaf("Fum", 8, 8, LE) >>

\* Two fields of one name.
DupList == << Leaf("Bar", 0, 8, LE), Leaf("Bar", 8, 8, LE) >>

\* A 'field' group of 1..2 items without a maximum.
OpenFieldList ==
    << Data("S", 7, 8, BE, 1, 0, 1, None, 1, 2, NoChoices, "field", << Leaf("X", 0, 8, LE) >>) >>

\* A group of 1..2 items whose bounds disagree: minimum // min_num_of_items
\* is 2 bytes, its own length 1 byte.
SkewList ==
    << Data("S", 7, 8, BE, 1, 0, 2, 4, 1, 2, NoChoices, "atom", << Leaf("X", 0, 8, LE) >>) >>

\* The same as a 'field' quantity: maximum // max_num_of_items is 1 byte,
\* minimum // min_num_of_items 2 bytes.
SkewFieldList ==
    << Data("S", 7, 8, BE, 1, 0, 2, 2, 1, 2, NoChoices, "field", << Leaf("X", 0, 8, LE) >>) >>

\* A struct inside a struct.
NestList ==
    << Data("S", 7, 8, BE, 1, 0, 1, 1, 1, 1, NoChoices, "atom",
            << Data("N", 7, 8, BE, 1, 0, 1, 1, 1, 1, NoChoices, "atom", << Leaf("X", 0, 8, LE) >>) >>) >>

\* The lists of new Data objects handed to the constructor and the setter.
NewDatas == {FooList, DupList, OpenFieldList, SkewList, SkewFieldList, NestList}

NewLengths == {1, 2}

NewSubElements == {<<>>, << Leaf("Z", 0, 8, LE) >>}

FieldNames == {"Bar", "S", "Nix"}

\* Buffers handed to decode: the prefixes of one buffer.
EditBuffers == {Slice(<<1, 69, 5, 0>>, 0, n) : n \in 0..4}

\* Mappings handed to encode: one naming every field, one naming only Bar.
EditMappings ==
    {[n \in {"Bar", "Fum", "S"} |-> IntV(IF n = "Bar" THEN 1 ELSE IF n = "Fum" THEN 69 ELSE 5)],
     [n \in {"Bar"} |-> IntV(1)]}

InitEdit ==
    /\ did = Did(1, "Foo", 2, FooList)
    /\ last = Idle
    /\ db = NoDatabase
    /\ defaults = NoDefaults
    /\ threads = NoThreads

Construct ==
    /\ last.op = "idle"
    /\ \E datas \in NewDatas : \E length \in NewLengths :
        /\ did' = Did(1, "Foo", length, datas)
        /\ last' = Call("__init__", <<length, datas>>, FALSE, FALSE, FALSE, Ok(NoneV))
        /\ UNCHANGED <<db, defaults, threads>>

\* did.datas = value, with a list other than the one the plan holds.
SetDatas ==
    /\ last.op = "idle"
    /\ \E value \in NewDatas :
        /\ value # did.codec.datas
        /\ did' = [did EXCEPT !.datas = value]
        /\ last' = Call("datas", value, FALSE, FALSE, FALSE, Ok(NoneV))
        /\ UNCHANGED <<db, defaults, threads>>

\* did.length = value.
SetLength ==
    /\ last.op = "idle"
    /\ \E value \in NewLengths :
        /\ did' = [did EXCEPT !.length = value]
        /\ last' = Call("length", value, FALSE, FALSE, FALSE, Ok(NoneV))
        /\ UNCHANGED <<db, defaults, threads>>

SetSubElements ==
    /\ last.op = "idle"
    /\ \E k \in 1..Len(did.datas) : \E value \in NewSubElements :
        /\ SetSub(did, k, value).datas = did.codec.datas => did.datas = did.codec.datas
        /\ did' = SetSub(did, k, value)
        /\ last' = Call("sub_elements", <<k, value>>, FALSE, FALSE, FALSE, Ok(NoneV))
        /\ UNCHANGED <<db, defaults, threads>>

GetDataByName ==
    /\ last.op = "idle"
    /\ \E name \in FieldNames :
        /\ last' = Call("get_data_by_name", name, FALSE, FALSE, FALSE, get_data_by_name(did, name))
        /\ UNCHANGED <<did, db, defaults, threads>>

\* An encode that refreshes the Did before it packs.
EncodeRefreshing ==
    /\ last.op = "idle"
    /\ \E data \in EditMappings :
        /\ last' = Call("encode", data, FALSE, FALSE, FALSE, encode(refresh(did), data, FALSE))
        /\ did' = refresh(did)
        /\ UNCHANGED <<db, defaults, threads>>

EncodeEdited ==
    /\ last.op = "idle"
    /\ \E data \in EditMappings :
        /\ last' = Call("encode", data, FALSE, FALSE, FALSE, encode(did, data, FALSE))
        /\ UNCHANGED <<did, db, defaults, threads>>

DecodeEdited ==
    /\ last.op = "idle"
    /\ \E data \in EditBuffers : \E allow_truncated \in BOOLEAN :
        /\ last' = Call("decode", data, FALSE, FALSE, allow_truncated,
                        decode(did, data, FALSE, FALSE, allow_truncated))
        /\ UNCHANGED <<did, db, defaults, threads>>

NextEdit ==
    \/ Construct \/ SetDatas \/ SetLength \/ SetSubElements \/ GetDataByName
    \/ EncodeEdited \/ DecodeEdited \/ Refresh \/ Return

SpecEdit == InitEdit /\ [][NextEdit]_vars

(***************************************************************************)
(* A Database of three variants (or none) whose Dids are edited between    *)
(* refreshes.                                                              *)
(***************************************************************************)
BaseVariant ==
    Variant("Base", << GroupList("Common", << FooDid, BitsDid >>) >>, << Dtc(1, "P0001") >>)

\* Shares the Did name Foo, the Did identifier 1 and the Dtc identifier 1
\* with Base, each on an object of its own.
SportVariant ==
    Variant("Sport",
            << GroupList("Common", << Did(1, "Foo", 1, << Leaf("Bar", 0, 8, LE) >>) >>),
               GroupList("Extra", << StructDid >>) >>,
            << Dtc(2, "P0002"), Dtc(1, "P0003") >>)

\* Holds its second group as a DiagnosticGroup object.
TypedVariant ==
    Variant("Typed",
            << GroupList("Common", << WordDid >>), DiagnosticGroup("Extra", << ChoiceDid >>) >>,
            << Dtc(3, "P0004") >>)

\* Two Dids of the name Foo and two of the identifier 2.
TwinVariant ==
    Variant("Twin",
            << GroupList("Common", << Did(1, "Foo", 1, << Leaf("Bar", 0, 8, LE) >>),
                                      Did(2, "Foo", 1, << Leaf("Fum", 0, 8, LE) >>),
                                      Did(2, "Bits", 1, << Leaf("A", 0, 3, LE) >>) >>) >>,
            <<>>)

\* A second variant of the name Base.
BaseAgainVariant ==
    Variant("Base", << GroupList("Common", << Did(5, "Struct", 1, << Leaf("Id", 0, 8, LE) >>) >>) >>, <<>>)

VariantLists ==
    {<<>>, << BaseVariant, SportVariant, TypedVariant, TwinVariant, BaseAgainVariant >>}

VariantNames == {"Base", "Sport", "Typed", "Twin", "Nix"}

DidNames == {"Foo", "Bits", "Struct", "Word", "Choice", "Nix"}

DidIdentifiers == 0..5

DtcNames == {"P0001", "P0002", "P0003", "P0004", "Nix"}

DtcIdentifiers == 0..3

\* Well-formed CDD documents, by the names of their ECU/VAR elements.
Documents ==
    {[variants |-> << "Base" >>, protocol_services |-> <<>>],
     [variants |-> << "Sport", "Base" >>, protocol_services |-> <<>>]}

\* The Dids of variant v, by reference.
DidRefs(self, v) ==
    UNION {{<<v, g, k>> : k \in 1..Len(self.variants[v].diag_groups[g].dids)} :
           g \in 1..Len(self.variants[v].diag_groups)}

DtcRefs(self, v) == {<<v, k>> : k \in 1..Len(self.variants[v].dtcs)}

InitDb ==
    /\ did = EmptyDid
    /\ last = Idle
    /\ \E variants \in VariantLists : db = Database(<<>>, variants)
    /\ defaults = NoDefaults
    /\ threads = NoThreads

SelectVariant ==
    /\ last.op = "idle"
    /\ \E variant_name \in VariantNames :
        /\ db' = select_variant(db, variant_name).db
        /\ last' = Call("select_variant", variant_name, FALSE, FALSE, FALSE,
                        select_variant(db, variant_name).out)
        /\ UNCHANGED <<did, defaults, threads>>

RefreshDatabase ==
    /\ last.op = "idle"
    /\ db' = Database_refresh(db).db
    /\ last' = Call("Database.refresh", <<>>, FALSE, FALSE, FALSE, Database_refresh(db).out)
    /\ UNCHANGED <<did, defaults, threads>>

\* did.length = 1 on a Did of the database.
SetDidLength ==
    /\ last.op = "idle"
    /\ \E v \in 1..Len(db.variants) : \E ref \in DidRefs(db, v) :
        /\ db' = [db EXCEPT !.variants[ref[1]].diag_groups[ref[2]].dids[ref[3]].length = 1]
        /\ last' = Call("length", ref, FALSE, FALSE, FALSE, Ok(NoneV))
        /\ UNCHANGED <<did, defaults, threads>>

GetDidByName ==
    /\ last.op = "idle"
    /\ \E name \in DidNames :
        /\ last' = Call("get_did_by_name", name, FALSE, FALSE, FALSE, Ok(get_did_by_name(db, name)))
        /\ UNCHANGED <<did, db, defaults, threads>>

GetDidByIdentifier ==
    /\ last.op = "idle"
    /\ \E identifier \in DidIdentifiers :
        /\ last' = Call("get_did_by_identifier", identifier, FALSE, FALSE, FALSE,
                        Ok(get_did_by_identifier(db, identifier)))
        /\ UNCHANGED <<did, db, defaults, threads>>

GetDtcByName ==
    /\ last.op = "idle"
    /\ \E name \in DtcNames :
        /\ last' = Call("get_dtc_by_name", name, FALSE, FALSE, FALSE, Ok(get_dtc_by_name(db, name)))
        /\ UNCHANGED <<did, db, defaults, threads>>

GetDtcByIdentifier ==
    /\ last.op = "idle"
    /\ \E identifier \in DtcIdentifiers :
        /\ last' = Call("get_dtc_by_identifier", identifier, FALSE, FALSE, FALSE,
                        Ok(get_dtc_by_identifier(db, identifier)))
        /\ UNCHANGED <<did, db, defaults, threads>>

AddCddString ==
    /\ last.op = "idle"
    /\ \E string \in Documents : \E diagnostics_variant \in {"", "Base", "Sport"} :
        /\ db' = add_cdd_string(db, string, diagnostics_variant).db
        /\ last' = Call("add_cdd_string", <<string, diagnostics_variant>>, FALSE, FALSE, FALSE,
                        add_cdd_string(db, string, diagnostics_variant).out)
        /\ UNCHANGED <<did, defaults, threads>>

NextDb ==
    \/ SelectVariant \/ RefreshDatabase \/ SetDidLength
    \/ GetDidByName \/ GetDidByIdentifier \/ GetDtcByName \/ GetDtcByIdentifier
    \/ AddCddString \/ Return

SpecDb == InitDb /\ [][NextDb]_vars

(***************************************************************************)
(* A Did whose fields were built without a sub_elements argument, and      *)
(* sub-fields appended to the sub_elements of one of them.                 *)
(***************************************************************************)
\* The longest sub_elements list the model builds.
MaxSubElements == 2

\* Data(name, start, length, byte_order): no sub_elements argument, so the
\* attribute is the default list object, with the contents it has by then.
LeafSharing(name, start, length, byte_order, default) ==
    [Leaf(name, start, length, byte_order) EXCEPT !.sub_elements = default]

SharingList(default) ==
    << LeafSharing("Bar", 0, 8, LE, default), LeafSharing("Fum", 8, 8, LE, default) >>

\* The sub-fields appended: built with a list of their own, sub_elements=[].
SubFields == {Leaf("X", 0, 8, LE), Leaf("Z", 0, 8, LE)}

\* `field.sub_elements.append(x)` on field k: the list object grows, and
\* with it the sub_elements of every field that holds the same object.
AppendSub(d, holders, k, x) ==
    LET targets == IF k \in holders THEN holders ELSE {k}
        datas == [j \in 1..Len(d.datas) |->
                    IF j \in targets THEN [d.datas[j] EXCEPT !.sub_elements = Append(@, x)]
                    ELSE d.datas[j]]
    IN  IF d.datas = d.codec.datas
        THEN [d EXCEPT !.datas = datas, !.codec.datas = datas]
        ELSE [d EXCEPT !.datas = datas]

InitShare ==
    /\ did = Did(1, "Foo", 2, SharingList(<<>>))
    /\ last = Idle
    /\ db = NoDatabase
    /\ defaults = [sub_elements |-> <<>>, holders |-> {1, 2}]
    /\ threads = NoThreads

\* Did(1, 'Foo', 2, [Data('Bar', 0, 8), Data('Fum', 8, 8)]).
ConstructDefault ==
    /\ last.op = "idle"
    /\ did' = Did(1, "Foo", 2, SharingList(defaults.sub_elements))
    /\ defaults' = [defaults EXCEPT !.holders = {1, 2}]
    /\ last' = Call("__init__", <<>>, FALSE, FALSE, FALSE, Ok(NoneV))
    /\ UNCHANGED <<db, threads>>

\* The same with sub_elements=[] given to every Data.
ConstructExplicit ==
    /\ last.op = "idle"
    /\ did' = Did(1, "Foo", 2, FooList)
    /\ defaults' = [defaults EXCEPT !.holders = {}]
    /\ last' = Call("__init__", FooList, FALSE, FALSE, FALSE, Ok(NoneV))
    /\ UNCHANGED <<db, threads>>

AppendSubElement ==
    /\ last.op = "idle"
    /\ \E k \in 1..Len(did.datas) : \E x \in SubFields :
        /\ Len(did.datas[k].sub_elements) < MaxSubElements
        /\ did' = AppendSub(did, defaults.holders, k, x)
        /\ defaults' = IF k \in defaults.holders
                       THEN [defaults EXCEPT !.sub_elements = Append(@, x)]
                       ELSE defaults
        /\ last' = Call("append", <<k, x>>, FALSE, FALSE, FALSE, Ok(NoneV))
        /\ UNCHANGED <<db, threads>>

\* field.sub_elements = value: the field holds a list of its own.
AssignSubElements ==
    /\ last.op = "idle"
    /\ \E k \in 1..Len(did.datas) : \E value \in NewSubElements :
        /\ did' = SetSub(did, k, value)
        /\ defaults' = [defaults EXCEPT !.holders = @ \ {k}]
        /\ last' = Call("sub_elements", <<k, value>>, FALSE, FALSE, FALSE, Ok(NoneV))
        /\ UNCHANGED <<db, threads>>

NextShare ==
    \/ ConstructDefault \/ ConstructExplicit \/ AppendSubElement \/ AssignSubElements
    \/ Refresh \/ Return

SpecShare == InitShare /\ [][NextShare]_vars

(***************************************************************************)
(* Threads on one Did: one calls refresh, the others encode and decode.    *)
(* A thread switch can fall between any two reads or writes of an          *)
(* attribute, so refresh is one step a write and encode and decode one     *)
(* step a read of _codec.  Every _codec object carries the number of the   *)
(* refresh call that made it (0 for Did.__init__): `plan` for the Did's,   *)
(* `sub` for those of its fields.  The Did is edited only while no thread  *)
(* is in a call.                                                           *)
(***************************************************************************)
\* The refresh calls of a run.
MaxRefreshes == 2

\* The threads that call encode and decode.
Readers == {1, 2}

\* The _codec objects a call has read: the refresh call that made the one
\* it took 'datas' from, the one it took 'formats' from, and the sub-plan it
\* read last.
NoSeen == [datas |-> None, formats |-> None, sub_datas |-> None]

\* The local variables of encode and decode.
IdleReader ==
    [pc |-> "idle", op |-> "", data |-> <<>>, allow_truncated |-> FALSE, overlap |-> FALSE,
     datas |-> <<>>, decoded_data |-> <<>>, k |-> 0, i |-> 0, byte_offset |-> 0,
     dec_data_list |-> <<>>, sub_datas |-> <<>>, seen |-> NoSeen, out |-> Ok(NoneV)]

\* The call is entered; `running` says whether a refresh is in progress.
ReaderStart(op, data, allow_truncated, running) ==
    [IdleReader EXCEPT !.pc = "datas", !.op = op, !.data = data,
                       !.allow_truncated = allow_truncated, !.overlap = running]

\* The call has its outcome: the locals are dropped.
Finish(rd, out) ==
    [IdleReader EXCEPT !.pc = "return", !.op = rd.op, !.data = rd.data,
                       !.allow_truncated = rd.allow_truncated, !.overlap = rd.overlap,
                       !.seen = rd.seen, !.out = out]

\* self._codec['datas'].
ReadDatas(d, rd, plan) ==
    [rd EXCEPT !.datas = d.codec.datas, !.seen.datas = plan, !.pc = "formats"]

\* self._codec['formats'], and with both arguments read the call of
\* encode_data (the rest of encode) or of decode_data.
ReadFormats(d, rd, plan) ==
    LET read == [rd EXCEPT !.seen.formats = plan]
    IN  IF rd.op = "encode"
        THEN Finish(read, encode([d EXCEPT !.codec.datas = rd.datas], rd.data, FALSE))
        ELSE LET top == decode_data(rd.data, d.length, rd.datas, d.codec.formats,
                                    FALSE, FALSE, rd.allow_truncated)
             IN  IF ~top.ok THEN Finish(read, top)
                 ELSE [read EXCEPT !.decoded_data = top.val.d, !.k = 1, !.pc = "field"]

\* `for sub_data_obj in self.datas: if sub_data_obj._codec:` and the lines
\* before the item loop.
ReaderField(d, rd) ==
    IF rd.k > Len(d.datas) THEN Finish(rd, Ok(DictV(rd.decoded_data)))
    ELSE LET f == d.datas[rd.k]
         IN  IF f.codec.none THEN [rd EXCEPT !.k = @ + 1]
             ELSE IF ~IterLen(f).ok THEN Finish(rd, IterLen(f))
             ELSE IF f.max_num_of_items = None THEN Finish(rd, Err("TypeError", ""))
             ELSE [rd EXCEPT !.i = 0, !.byte_offset = 0, !.dec_data_list = <<>>, !.pc = "item"]

\* The end of the item loop: the decoded items stored under the field name.
EndField(d, rd, dec_data_list) ==
    LET f == d.datas[rd.k]
    IN  [rd EXCEPT !.decoded_data = Put(@, f.name, IF Collapse(f) THEN dec_data_list[1]
                                                    ELSE ListV(dec_data_list)),
                   !.k = @ + 1, !.i = 0, !.byte_offset = 0, !.dec_data_list = <<>>,
                   !.sub_datas = <<>>, !.pc = "field"]

\* The slice of item i.
ItemData(f, rd) ==
    Slice(rd.data, (f.start \div 8) + rd.byte_offset,
          (f.start \div 8) + IterLen(f).val + rd.byte_offset)

\* One turn of the item loop up to its first read of the sub-plan,
\* sub_data_obj._codec['datas'].
ReaderItem(d, rd, sub) ==
    LET f == d.datas[rd.k]
    IN  IF rd.i >= f.max_num_of_items THEN EndField(d, rd, rd.dec_data_list)
        ELSE IF Len(ItemData(f, rd)) < IterLen(f).val
             THEN IF TooShort(f, rd.i, rd.allow_truncated)
                  THEN Finish(rd, ErrN("BufferTooShortError", f.min_num_of_items))
                  ELSE EndField(d, rd, Append(rd.dec_data_list, NoneV))
             ELSE [rd EXCEPT !.sub_datas = f.codec.datas, !.seen.sub_datas = sub[rd.k],
                             !.pc = "item_formats"]

\* An item step that leaves the offset where it was.
ReaderItemFormatsStuck(d, rd, sub) ==
    LET f == d.datas[rd.k]
        r == decode_data(ItemData(f, rd), Len(ItemData(f, rd)), rd.sub_datas, f.codec.formats,
                         FALSE, FALSE, rd.allow_truncated)
    IN  IF ~r.ok THEN Finish(rd, r)
        ELSE [rd EXCEPT !.dec_data_list = Append(@, r.val),
                        !.i = @ + 1, !.pc = "item"]

\* sub_data_obj._codec['formats'], the call of decode_data on the item and
\* the end of the turn.
ReaderItemFormats(d, rd, sub) ==
    LET f == d.datas[rd.k]
        r == decode_data(ItemData(f, rd), Len(ItemData(f, rd)), rd.sub_datas, f.codec.formats,
                         FALSE, FALSE, rd.allow_truncated)
    IN  IF ~r.ok THEN Finish(rd, r)
        ELSE [rd EXCEPT !.dec_data_list = Append(@, r.val),
                        !.byte_offset = NextOffset(@, ItemData(f, rd)),
                        !.i = @ + 1, !.pc = "item"]

\* sub_data_obj._codec = {...} on field k.  The compiled plan holds the
\* list it was compiled from: while that is the Did's list, the plan sees
\* the same Data objects.
RefreshFieldStep(d, k) ==
    LET datas == [d.datas EXCEPT ![k].codec = SubCodec(d.datas[k])]
    IN  IF d.datas[k].sub_elements = <<>> THEN d
        ELSE IF d.datas = d.codec.datas
             THEN [d EXCEPT !.datas = datas, !.codec.datas = datas]
             ELSE [d EXCEPT !.datas = datas]

\* self._codec = {...}.
RefreshPlanStep(d) ==
    [d EXCEPT !.codec = [none |-> FALSE,
                         datas |-> d.datas,
                         formats |-> create_encode_decode_formats(d.datas, d.length)]]

\* A repeating group of one or two one-byte items.
RaceList ==
    << Data("S", 7, 8, BE, 1, 0, 1, 2, 1, 2, NoChoices, "atom", << Leaf("X", 0, 8, LE) >>) >>

RaceBuffers == {<<1, 69>>}

RaceMappings == {[n \in {"S"} |-> IntV(5)]}

\* Every call in progress overlaps the refresh.
Overlapped(readers) ==
    [r \in Readers |-> IF readers[r].pc = "idle" THEN readers[r]
                       ELSE [readers[r] EXCEPT !.overlap = TRUE]]

NoThreadRuns ==
    /\ threads.refresher.pc = "idle"
    /\ \A r \in Readers : threads.readers[r].pc = "idle"

InitRace ==
    /\ did = Did(1, "Foo", 2, RaceList)
    /\ last = Idle
    /\ db = NoDatabase
    /\ defaults = NoDefaults
    /\ threads = [refreshes |-> 0, plan |-> 0, sub |-> [k \in 1..Len(RaceList) |-> 0],
                  refresher |-> [pc |-> "idle", k |-> 0],
                  readers |-> [r \in Readers |-> IdleReader]]

\* did.length = value or field.sub_elements = value, by the only thread.
Edit ==
    /\ NoThreadRuns
    /\ threads.refreshes < MaxRefreshes
    /\ SetLength \/ SetSubElements

RefreshBegin ==
    /\ last.op = "idle"
    /\ threads.refresher.pc = "idle"
    /\ threads.refreshes < MaxRefreshes
    /\ threads' = [threads EXCEPT !.refreshes = @ + 1,
                                  !.refresher = [pc |-> IF did.datas = <<>> THEN "plan" ELSE "fields",
                                                 k |-> 1],
                                  !.readers = Overlapped(@)]
    /\ UNCHANGED <<did, last, db, defaults>>

RefreshField ==
    /\ threads.refresher.pc = "fields"
    /\ did' = RefreshFieldStep(did, threads.refresher.k)
    /\ threads' = [threads EXCEPT !.sub[threads.refresher.k] =
                                      IF did.datas[threads.refresher.k].sub_elements = <<>>
                                      THEN @ ELSE threads.refreshes,
                                  !.refresher = IF threads.refresher.k = Len(did.datas)
                                                THEN [pc |-> "plan", k |-> 0]
                                                ELSE [pc |-> "fields", k |-> threads.refresher.k + 1],
                                  !.readers = Overlapped(@)]
    /\ UNCHANGED <<last, db, defaults>>

RefreshPlan ==
    /\ threads.refresher.pc = "plan"
    /\ did' = RefreshPlanStep(did)
    /\ threads' = [threads EXCEPT !.plan = threads.refreshes,
                                  !.refresher = [pc |-> "idle", k |-> 0],
                                  !.readers = Overlapped(@)]
    /\ UNCHANGED <<last, db, defaults>>

\* encode or decode is called.  Of the idle threads the lowest enters.
ReaderBegin(r) ==
    /\ last.op = "idle"
    /\ threads.readers[r].pc = "idle"
    /\ \A q \in Readers : q < r => threads.readers[q].pc # "idle"
    /\ \/ \E data \in RaceMappings :
            threads' = [threads EXCEPT !.readers[r] =
                            ReaderStart("encode", data, FALSE, threads.refresher.pc # "idle")]
       \/ \E data \in RaceBuffers :
            threads' = [threads EXCEPT !.readers[r] =
                            ReaderStart("decode", data, FALSE, threads.refresher.pc # "idle")]
    /\ UNCHANGED <<did, last, db, defaults>>

ReaderStep(r) ==
    /\ threads.readers[r].pc \in {"datas", "formats", "field", "item", "item_formats"}
    /\ threads' = [threads EXCEPT !.readers[r] =
            CASE @.pc = "datas" -> ReadDatas(did, @, threads.plan)
              [] @.pc = "formats" -> ReadFormats(did, @, threads.plan)
              [] @.pc = "field" -> ReaderField(did, @)
              [] @.pc = "item" -> ReaderItem(did, @, threads.sub)
              [] @.pc = "item_formats" -> ReaderItemFormats(did, @, threads.sub)]
    /\ UNCHANGED <<did, last, db, defaults>>

\* The caller of encode or decode takes the outcome.
ReaderReturn(r) ==
    /\ threads.readers[r].pc = "return"
    /\ threads' = [threads EXCEPT !.readers[r] = IdleReader]
    /\ UNCHANGED <<did, last, db, defaults>>

Reader == \E r \in Readers : ReaderBegin(r) \/ ReaderStep(r) \/ ReaderReturn(r)

NextRace == Edit \/ RefreshBegin \/ RefreshField \/ RefreshPlan \/ Reader \/ Return

SpecRace == InitRace /\ [][NextRace]_vars

(***************************************************************************)
(* Properties.                                                             *)
(***************************************************************************)
\* The network bits a plan item occupies.
ItemBits(item) == {NetBit(item, j) : j \in 0..(item.length - 1)}

\* Every field of the compiled plan lies inside the record's bytes.
InRange(d) ==
    \A k \in 1..Len(d.codec.formats.items) : EndByte(d.codec.formats.items[k]) <= d.length

\* The one-bits of a byte sequence read as a big-endian integer.
BytesBits(bytes) ==
    {8 * (Len(bytes) - k) + b : k \in 1..Len(bytes), b \in 0..7} \cap
    {p \in 0..(8 * Len(bytes)) : p < 8 * Len(bytes) /\ BitOf(bytes[Len(bytes) - (p \div 8)], p % 8) = 1}

\* The integer encode_data hands to Did.encode for the last call's mapping.
Accumulator == encode_data(last.arg, did.codec.datas, did.codec.formats, last.scaling)

\* C1: for a record whose fields lie inside its bit range and a mapping
\* encode_data accepts, Did.encode returns exactly byte_length bytes; they
\* are the big-endian bytes of the accumulator, leading zero bytes kept (an
\* all-zero accumulator gives byte_length zero bytes), and the guard bit is
\* not among them.
C1_EncodeLength ==
    (last.op = "encode" /\ InRange(did) /\ Accumulator.ok) =>
        /\ last.out.ok
        /\ Len(last.out.val) = did.length
        /\ BytesBits(last.out.val) = Accumulator.val
        /\ (Accumulator.val = {} => \A k \in 1..did.length : last.out.val[k] = 0)

\* An encode whose first byte is zero and whose last byte is not.
C1_Witness ==
    /\ last.op = "encode" /\ InRange(did) /\ last.out.ok
    /\ did.length = 4
    /\ last.out.val[1] = 0 /\ last.out.val[4] # 0

\* A record of C2: every field a leaf without choices, scale 1, offset 0,
\* the bit ranges disjoint and inside the record.
PlainRecord(d) ==
    /\ InRange(d)
    /\ d.datas = d.codec.datas
    /\ \A k \in 1..Len(d.datas) :
          /\ d.datas[k].sub_elements = <<>> /\ d.datas[k].codec.none
          /\ d.datas[k].choices.none
          /\ d.datas[k].scale = 1 /\ d.datas[k].offset = 0
    /\ \A k, m \in 1..Len(d.datas) :
          k # m => ItemBits(d.codec.formats.items[k]) \cap ItemBits(d.codec.formats.items[m]) = {}

\* The mapping gives every field of the record a number.
Complete(d, data) ==
    \A k \in 1..Len(d.datas) : d.datas[k].name \in DOMAIN data /\ data[d.datas[k].name].t = "int"

\* C2: on such a record, encode of a mapping that gives every field a
\* representable number succeeds, and decode of the bytes gives the mapping
\* back, whatever the flags of the decode.
C2_RoundTrip ==
    (last.op = "encode" /\ PlainRecord(did) /\ Complete(did, last.arg)) =>
        /\ last.out.ok
        /\ \A decode_choices, scaling, allow_truncated \in BOOLEAN :
              decode(did, last.out.val, decode_choices, scaling, allow_truncated) = Ok(DictV(last.arg))

\* A round trip over a 16-bit field of each byte order.
C2_Witness ==
    /\ last.op = "encode" /\ PlainRecord(did) /\ Complete(did, last.arg)
    /\ did.length = 4
    /\ last.arg["W"] = IntV(65535) /\ last.arg["V"] = IntV(5)
    /\ last.out = Ok(<<255, 255, 5, 0>>)

\* The record holds a structured or repeating field.
HasStruct(d) == \E k \in 1..Len(d.datas) : d.datas[k].sub_elements # <<>>

\* The mapping names every field of the record.
NamesAll(d, data) == \A k \in 1..Len(d.datas) : d.datas[k].name \in DOMAIN data

\* C3: encode on a record that holds a structured or repeating field always
\* ends in an unsupported-operation error and never returns bytes, a mapping
\* that names every field of the record included.
C3_EncodeStructUnsupported ==
    (last.op = "encode" /\ HasStruct(did) /\ NamesAll(did, last.arg)) =>
        (~last.out.ok /\ IsErr(last.out, "UnsupportedOperationError"))

\* The fields of a record that carry a sub-plan.
StructFields(d) == {k \in 1..Len(d.datas) : ~d.datas[k].codec.none}

\* The record's structured field, for a record with one of them.
TheStruct(d) == d.datas[CHOOSE k \in StructFields(d) : TRUE]

\* The bytes of item i of a field whose items are L bytes each.
ItemSlice(f, data, L, i) == Slice(data, (f.start \div 8) + i * L, (f.start \div 8) + (i + 1) * L)

\* The index of the first item whose slice is short, max_num_of_items when
\* the buffer holds them all.
FirstShort(f, data, L) ==
    LET short == {i \in 0..(f.max_num_of_items - 1) : Len(ItemSlice(f, data, L, i)) < L}
    IN  IF short = {} THEN f.max_num_of_items ELSE CHOOSE i \in short : \A j \in short : i <= j

\* The decoded value of item i under the flags of the last call.
ItemValue(f, data, L, i) ==
    decode_data(ItemSlice(f, data, L, i), L, f.codec.datas, f.codec.formats,
                last.decode_choices, last.scaling, last.allow_truncated)

\* The last call is a decode that reaches the item loop of the record's one
\* structured field: the pass over the record's own plan succeeds and the
\* item size is a positive number.
InItemLoop ==
    /\ last.op = "decode"
    /\ Cardinality(StructFields(did)) = 1
    /\ decode_data(last.arg, did.length, did.codec.datas, did.codec.formats,
                   last.decode_choices, last.scaling, last.allow_truncated).ok
    /\ IterLen(TheStruct(did)).ok /\ IterLen(TheStruct(did)).val > 0
    /\ TheStruct(did).max_num_of_items # None

\* The items before index n, each decoded from its own slice.
ItemsBefore(f, data, L, n) == [j \in 1..n |-> ItemValue(f, data, L, j - 1).val]

\* C4: when the slice of item i of a structured field is short, decode fails
\* with a buffer-too-short error carrying min_num_of_items if i is below
\* min_num_of_items and allow_truncated is false; in every other case the
\* field's items are the items before i followed by the absent sentinel,
\* and no item after i is decoded.
C4_ShortSlice ==
    InItemLoop =>
        LET f == TheStruct(did)
            L == IterLen(f).val
            i == FirstShort(f, last.arg, L)
        IN  (i < f.max_num_of_items /\ \A j \in 0..(i - 1) : ItemValue(f, last.arg, L, j).ok) =>
                IF i < f.min_num_of_items /\ ~last.allow_truncated
                THEN last.out = ErrN("BufferTooShortError", f.min_num_of_items)
                ELSE /\ last.out.ok
                     /\ last.out.val.d[f.name] =
                            IF f.min_num_of_items = 1 /\ f.max_num_of_items = 1
                            THEN NoneV
                            ELSE ListV(Append(ItemsBefore(f, last.arg, L, i), NoneV))

\* Item 1 of two 2-byte items is short, below the minimum, truncation not
\* allowed: the decode fails.
C4_Witness ==
    /\ InItemLoop
    /\ did.name = "Pair" /\ Len(last.arg) = 3 /\ ~last.allow_truncated
    /\ FirstShort(TheStruct(did), last.arg, 2) = 1
    /\ last.out = ErrN("BufferTooShortError", 2)

\* The repeating field of C5: between 2 and 5 one-byte items from byte 0 of
\* the record, each item one byte-wide number X.
C5Field(d) ==
    /\ Cardinality(StructFields(d)) = 1
    /\ TheStruct(d).min_num_of_items = 2 /\ TheStruct(d).max_num_of_items = 5
    /\ IterLen(TheStruct(d)) = Ok(1)
    /\ TheStruct(d).start \div 8 = 0
    /\ TheStruct(d).sub_elements = << Leaf("X", 0, 8, LE) >>

\* Is the value a sequence that ends in the absent sentinel?
EndsInSentinel(v) == v.t = "list" /\ Len(v.l) > 0 /\ v.l[Len(v.l)] = NoneV

\* C5 as the specification states it: on a 3-byte buffer the decode fails
\* with a buffer-too-short error when allow_truncated is false, and returns
\* a sequence ending in the absent sentinel when it is true.
C5_AsStated ==
    (last.op = "decode" /\ C5Field(did) /\ Len(last.arg) = 3) =>
        IF last.allow_truncated
        THEN last.out.ok /\ EndsInSentinel(last.out.val.d[TheStruct(did).name])
        ELSE IsErr(last.out, "BufferTooShortError")

\* C5, amended: a 3-byte buffer holds three complete one-byte items and the
\* short slice is that of item 3, not below min_num_of_items, so the item
\* loop never fails: the decode returns item 0, item 1, item 2 and the
\* absent sentinel, whatever allow_truncated is, unless allow_truncated is
\* false and the buffer is shorter than the record, when the pass over the
\* record's own plan fails with a buffer-too-short error.
C5_Truncation ==
    (last.op = "decode" /\ C5Field(did) /\ Len(last.arg) = 3) =>
        IF ~last.allow_truncated /\ Len(last.arg) < did.length
        THEN last.out = Err("BufferTooShortError", "")
        ELSE /\ last.out.ok
             /\ last.out.val.d[TheStruct(did).name] =
                    ListV(<< DictV([n \in {"X"} |-> IntV(last.arg[1])]),
                             DictV([n \in {"X"} |-> IntV(last.arg[2])]),
                             DictV([n \in {"X"} |-> IntV(last.arg[3])]),
                             NoneV >>)

\* A 3-byte buffer decoded by a 3-byte record without allow_truncated.
C5_Witness ==
    /\ last.op = "decode" /\ C5Field(did) /\ did.length = 3
    /\ last.arg = <<69, 1, 0>> /\ ~last.allow_truncated /\ ~last.decode_choices
    /\ last.out.ok /\ Len(last.out.val.d[TheStruct(did).name].l) = 4

\* The names of the plan's fields the mapping has no entry for.
MissingNames(d, data) ==
    {d.codec.datas[k].name : k \in {m \in 1..Len(d.codec.datas) : d.codec.datas[m].name \notin DOMAIN data}}

\* The mapping has no entry for some leaf field of the record.
LeafMissing(d, data) ==
    \E k \in 1..Len(d.datas) : d.datas[k].sub_elements = <<>> /\ d.datas[k].name \notin DOMAIN data

\* C6: whenever the mapping has no entry for some leaf field of the record,
\* encode fails with a missing-field error naming a field the mapping
\* lacks; nothing is defaulted and no bytes are returned.
C6_MissingField ==
    (last.op = "encode" /\ LeafMissing(did, last.arg)) =>
        /\ ~last.out.ok
        /\ last.out.err = "MissingFieldError"
        /\ last.out.who \in MissingNames(did, last.arg)

\* An encode of a two-field record from a mapping that names only the first.
C6_Witness ==
    /\ last.op = "encode" /\ did.name = "Foo"
    /\ DOMAIN last.arg = {"Bar"}
    /\ last.out = Err("MissingFieldError", "Fum")

\* The outcome of the last choice_string_to_number is the one the field's
\* choice table calls for.
ChoiceOutcome ==
    last.op = "choice_string_to_number" =>
        LET f == did.datas[last.arg[1]]
            string == last.arg[2]
            tbl == f.choices.tbl
        IN  IF f.choices.none THEN (~last.out.ok /\ last.out.err = "NoChoicesError")
            ELSE IF \E k \in 1..Len(tbl) : tbl[k][2] = string
            THEN last.out.ok /\ \E k \in 1..Len(tbl) : tbl[k] = <<last.out.val, string>>
            ELSE last.out = Err("UnknownChoiceError", f.name)

\* C7: choice_string_to_number returns a key of the field's choice table
\* whose entry is the label, fails with an unknown-choice error when no
\* entry carries the label, fails when the field has no choice table, and
\* leaves the descriptor as it was.
C7_ChoiceStringToNumber ==
    []ChoiceOutcome /\ [][last'.op = "choice_string_to_number" => did' = did]_vars

\* A label carried by two numbers, translated to the first of them.
C7_Witness ==
    /\ last.op = "choice_string_to_number" /\ did.name = "Choice"
    /\ did.datas[last.arg[1]].choices = Gears /\ last.arg[2] = "ON"
    /\ last.out = Ok(1)

\* The last call encodes "ON" for field k, a leaf with the choices 0 OFF,
\* 1 ON, scale 1 and offset 0, and a number for every other field.
EncodesOn(k) ==
    /\ last.op = "encode" /\ InRange(did)
    /\ did.datas[k].choices = OnOff /\ did.datas[k].sub_elements = <<>>
    /\ did.datas[k].scale = 1 /\ did.datas[k].offset = 0
    /\ NamesAll(did, last.arg)
    /\ last.arg[did.datas[k].name] = StrV("ON")
    /\ \A m \in 1..Len(did.datas) : m # k => last.arg[did.datas[m].name].t = "int"

\* C8: for a field F with choices 0 OFF, 1 ON, encoding "ON" for F and
\* decoding the bytes gives "ON" for F when decode_choices is true and the
\* number 1 when it is false.
C8_ChoiceRoundTrip ==
    \A k \in 1..Len(did.datas) :
        EncodesOn(k) =>
            /\ last.out.ok
            /\ \A scaling, allow_truncated \in BOOLEAN :
                  /\ decode(did, last.out.val, TRUE, scaling, allow_truncated).val.d[did.datas[k].name] = StrV("ON")
                  /\ decode(did, last.out.val, FALSE, scaling, allow_truncated).val.d[did.datas[k].name] = IntV(1)

\* "ON" encoded into the low nibble of a byte shared with another field.
C8_Witness ==
    /\ EncodesOn(1) /\ did.name = "Choice"
    /\ last.out.ok /\ last.out.val[1] % 16 = 1 /\ last.out.val[1] \div 16 # 0

\* C9: a structured field with min_num_of_items = max_num_of_items = 1
\* decodes to its one item (the absent sentinel when the item's slice is
\* short), never to a sequence; with any other item bounds it decodes to a
\* sequence.
C9_Collapse ==
    (InItemLoop /\ last.out.ok) =>
        LET f == TheStruct(did)
            L == IterLen(f).val
            v == last.out.val.d[f.name]
        IN  IF f.min_num_of_items = 1 /\ f.max_num_of_items = 1
            THEN /\ v.t # "list"
                 /\ v = IF FirstShort(f, last.arg, L) = 0 THEN NoneV
                                                         ELSE ItemValue(f, last.arg, L, 0).val
            ELSE v.t = "list"

\* A one-item structure decoded to the mapping of its sub-fields.
C9_Witness ==
    /\ InItemLoop /\ last.out.ok /\ did.name = "Struct"
    /\ last.arg = <<1, 69>> /\ ~last.decode_choices
    /\ last.out.val.d["S"] = DictV([n \in {"X", "Y"} |-> IF n = "X" THEN IntV(5) ELSE IntV(4)])

\* C10: the sequence a successful decode gives a repeating field has at
\* most max_num_of_items elements, element j is the item decoded from the
\* j-th slice of the buffer, and the absent sentinel occurs only as the last
\* element.
C10_Sequence ==
    (InItemLoop /\ last.out.ok /\ last.out.val.d[TheStruct(did).name].t = "list") =>
        LET f == TheStruct(did)
            L == IterLen(f).val
            l == last.out.val.d[f.name].l
        IN  /\ Len(l) <= f.max_num_of_items
            /\ \A j \in 1..Len(l) :
                  IF l[j] = NoneV THEN j = Len(l)
                  ELSE l[j] = ItemValue(f, last.arg, L, j - 1).val

\* A buffer that holds max_num_of_items items: the sequence is full, in
\* buffer order, and has no sentinel.
C10_Witness ==
    /\ InItemLoop /\ last.out.ok /\ did.name = "Tail"
    /\ last.arg = <<1, 69, 0>>
    /\ last.out.val.d["R"] = ListV(<< DictV([n \in {"X"} |-> IntV(1)]), DictV([n \in {"X"} |-> IntV(69)]) >>)

\* C11: encode and decode, whether they succeed or fail, leave the Did as
\* it was: identifier, name, length, field list, every field with its
\* sub_elements and sub-plan, and the compiled plan.
C11_Frame == [][last'.op \in {"encode", "decode"} => did' = did]_vars

\* A failed decode on a Did whose list was replaced after the last refresh.
C11_Witness ==
    /\ last.op = "decode" /\ ~last.out.ok
    /\ did.datas # did.codec.datas

\* A field as the caller built it, before any refresh gave it a sub-plan.
Unplanned(f) == [f EXCEPT !.codec = NoCodec]

\* C12: right after construction, with no refresh call made, the Did has a
\* compiled plan, and it is the plan compiled from the list and the length
\* handed to the constructor.
C12_ConstructedPlan ==
    last.op = "__init__" =>
        /\ ~did.codec.none
        /\ did.length = last.arg[1]
        /\ [k \in 1..Len(did.datas) |-> Unplanned(did.datas[k])] = last.arg[2]
        /\ did.codec.datas = did.datas
        /\ did.codec.formats = create_encode_decode_formats(did.datas, last.arg[1])

\* A Did constructed from a list with a structured field.
C12_Witness ==
    /\ last.op = "__init__" /\ last.arg[1] = 2
    /\ did.datas[1].name = "S" /\ ~did.datas[1].codec.none /\ ~did.codec.none

\* The Did as it was when its plan was compiled: the list the plan holds
\* and the length the plan was compiled for.
Compiled(d) == [d EXCEPT !.datas = d.codec.datas, !.length = d.codec.formats.number_of_bytes]

\* After refresh the plan is the one of the current list and length.
RefreshedPlan ==
    last.op = "refresh" =>
        /\ did.codec.datas = did.datas
        /\ did.codec.formats = create_encode_decode_formats(did.datas, did.length)

\* C13 as the specification states it: between an edit of the list or the
\* length and the next refresh, encode and decode give what the Did gave
\* before the edit; after the refresh they work from the new list and length.
C13_AsStated ==
    /\ last.op = "encode" => last.out = encode(Compiled(did), last.arg, last.scaling)
    /\ last.op = "decode" =>
            last.out = decode(Compiled(did), last.arg, last.decode_choices, last.scaling, last.allow_truncated)
    /\ RefreshedPlan

\* The names of the fields of the current list that carry a sub-plan.
PlannedNames(d) == {d.datas[k].name : k \in StructFields(d)}

\* The last field of the current list with the name and a sub-plan.
PlannedField(d, n) ==
    d.datas[CHOOSE k \in StructFields(d) :
                d.datas[k].name = n /\ \A m \in StructFields(d) : d.datas[m].name = n => m <= k]

\* C13, amended: before the refresh, encode packs the compiled list by the
\* compiled plan but sets its guard and truncates by the current length;
\* decode runs the pass over the compiled list and plan with the current
\* length as the expected length, then replaces the entry of every field of
\* the current list that carries a sub-plan by that field's items; after
\* the refresh both work from the new list and length.
C13_StalePlan ==
    /\ last.op = "encode" =>
            /\ last.out = encode([did EXCEPT !.datas = <<>>], last.arg, last.scaling)
            /\ last.out.ok => Len(last.out.val) <= did.length
    /\ last.op = "decode" =>
            LET top == decode_data(last.arg, did.length, did.codec.datas, did.codec.formats,
                                   last.decode_choices, last.scaling, last.allow_truncated)
                sub(n) == DecodeSub(PlannedField(did, n), last.arg, last.decode_choices,
                                    last.scaling, last.allow_truncated)
            IN  IF ~top.ok THEN last.out = top
                ELSE IF \A n \in PlannedNames(did) : sub(n).ok
                THEN /\ last.out.ok
                     /\ DOMAIN last.out.val.d = DOMAIN top.val.d \cup PlannedNames(did)
                     /\ \A n \in DOMAIN last.out.val.d :
                           last.out.val.d[n] = IF n \in PlannedNames(did) THEN sub(n).val ELSE top.val.d[n]
                ELSE \E n \in PlannedNames(did) : ~sub(n).ok /\ last.out = sub(n)
    /\ RefreshedPlan

\* A decode after the list with a group was replaced by a list of leaves:
\* the pass still reads the group's field, and no items replace it.
C13_Witness ==
    /\ last.op = "decode" /\ last.out.ok
    /\ did.datas = FooList /\ did.codec.datas # did.datas
    /\ did.codec.datas[1].name = "S" /\ ~did.codec.datas[1].codec.none
    /\ "S" \in DOMAIN last.out.val.d /\ last.out.val.d["S"].t = "int"

\* The places of the current list that hold a field of the name.
Named(d, name) == {k \in 1..Len(d.datas) : d.datas[k].name = name}

\* The outcome of the last get_data_by_name is the first field of the
\* current list with the name, or a field-not-found error naming it.
LookupOutcome ==
    last.op = "get_data_by_name" =>
        IF Named(did, last.arg) = {} THEN last.out = Err("FieldNotFoundError", last.arg)
        ELSE /\ last.out.ok
             /\ \E k \in Named(did, last.arg) :
                   /\ last.out.val = did.datas[k]
                   /\ \A m \in Named(did, last.arg) : k <= m

\* C14: get_data_by_name returns the first field of the Did's current list
\* whose name is the argument, fails with a field-not-found error when no
\* field has the name, and leaves the Did as it was.
C14_GetDataByName ==
    []LookupOutcome /\ [][last'.op = "get_data_by_name" => did' = did]_vars

\* A lookup in a list of two fields of one name, set after the last refresh.
C14_Witness ==
    /\ last.op = "get_data_by_name" /\ last.arg = "Bar"
    /\ did.datas = DupList /\ did.codec.datas # DupList
    /\ last.out.ok /\ last.out.val.start = 0

\* The per-item byte size refresh is to compile a field's sub-plan for.
ItemSize(f) ==
    IF f.qty = "field" /\ f.max_num_of_items \notin {None, 0} /\ f.maximum \notin {None, 0}
    THEN f.maximum \div f.max_num_of_items
    ELSE f.length \div 8

\* C17: the sub-plan refresh compiles for a structured field is sized
\* maximum // max_num_of_items when the quantity is 'field' and both are
\* set and non-zero, and length // 8 of the field otherwise; minimum plays
\* no part in the size.
C17_SubPlanSize ==
    last.op \in {"refresh", "__init__"} =>
        \A k \in 1..Len(did.datas) :
            did.datas[k].sub_elements # <<>> =>
                /\ ~did.datas[k].codec.none
                /\ did.datas[k].codec.datas = did.datas[k].sub_elements
                /\ did.datas[k].codec.formats =
                      create_encode_decode_formats(did.datas[k].sub_elements, ItemSize(did.datas[k]))

\* A 'field' group compiled for maximum // max_num_of_items = 1 byte while
\* minimum // min_num_of_items is 2.
C17_Witness ==
    /\ last.op = "refresh"
    /\ did.datas[1].qty = "field" /\ did.datas[1].sub_elements # <<>>
    /\ did.datas[1].maximum = 2 /\ did.datas[1].max_num_of_items = 2
    /\ did.datas[1].minimum \div did.datas[1].min_num_of_items = 2
    /\ did.datas[1].codec.formats.number_of_bytes = 1

\* A field has a sub-plan exactly when it has sub_elements.
PlanIffSub(f) == (~f.codec.none) <=> (f.sub_elements # <<>>)

\* C18: after any edits of the field tree followed by refresh, every field
\* of the tree, the fields inside a structured field included, has a
\* sub-plan if and only if its sub_elements are not empty.
C18_PlanIffSubFields ==
    last.op = "refresh" =>
        \A k \in 1..Len(did.datas) :
            /\ PlanIffSub(did.datas[k])
            /\ \A j \in 1..Len(did.datas[k].sub_elements) : PlanIffSub(did.datas[k].sub_elements[j])

\* C19: the items of a structured field are sliced by the per-item byte
\* size its sub-plan was compiled for: item i of a successful decode of a
\* refreshed Did is decoded from bytes start // 8 + i * size up to
\* start // 8 + (i + 1) * size.
C19_ItemSize ==
    (last.op = "decode" /\ last.out.ok /\ refresh(did) = did /\ Cardinality(StructFields(did)) = 1) =>
        LET f == TheStruct(did)
            size == f.codec.formats.number_of_bytes
            v == last.out.val.d[f.name]
        IN  /\ IterLen(f) = Ok(size)
            /\ v.t = "list" =>
                  \A j \in 1..Len(v.l) :
                      v.l[j] # NoneV => v.l[j] = ItemValue(f, last.arg, size, j - 1).val

\* A structured field that is an optional group or has no byte bounds.
OptionalGroup(f) ==
    /\ f.sub_elements # <<>> /\ ~f.codec.none
    /\ (f.min_num_of_items = 0 \/ f.minimum \in {0, None})

\* The complete items of the compiled size the buffer holds for the field.
CompleteItems(f, data) ==
    Min(f.max_num_of_items, Max(0, Len(data) - (f.start \div 8)) \div f.codec.formats.number_of_bytes)

\* C20: decoding a Did with a structured field whose min_num_of_items is 0,
\* or whose minimum is 0 or None, fails with no error other than the
\* buffer-too-short error, and a successful decode gives the field as many
\* decoded items as the buffer holds complete ones.
C20_OptionalGroup ==
    (last.op = "decode" /\ Cardinality(StructFields(did)) = 1 /\ OptionalGroup(TheStruct(did))) =>
        /\ last.out.ok \/ IsErr(last.out, "BufferTooShortError")
        /\ last.out.ok =>
              LET v == last.out.val.d[TheStruct(did).name]
              IN  v.t = "list" =>
                    Cardinality({j \in 1..Len(v.l) : v.l[j] # NoneV}) = CompleteItems(TheStruct(did), last.arg)

\* The Dids and the Dtcs of the selected variant, by reference.
SelectedDids == IF db.selected_variant = 0 THEN {} ELSE DidRefs(db, db.selected_variant)

SelectedDtcs == IF db.selected_variant = 0 THEN {} ELSE DtcRefs(db, db.selected_variant)

\* A lookup gives an object of the selected variant filed under the key,
\* and None when the selected variant has no object of that key.
OnlySelected(found, refs, keyed) ==
    IF keyed = {} THEN found = NoneV
    ELSE found # NoneV /\ found.ref \in refs /\ found.ref \in keyed

\* C15: after a successful select_variant or Database.refresh every Did of
\* every diagnostic group of the selected variant has been refreshed, and
\* the four lookups give only Dids and Dtcs of the selected variant: None
\* for a name or an identifier the selected variant does not hold.
C15_SelectedVariant ==
    (last.op \in {"select_variant", "Database.refresh"} /\ last.out.ok) =>
        /\ \A ref \in SelectedDids : refresh(DidAt(db, ref)) = DidAt(db, ref)
        /\ \A name \in DidNames :
              OnlySelected(get_did_by_name(db, name), SelectedDids,
                           {r \in SelectedDids : DidAt(db, r).name = name})
        /\ \A identifier \in DidIdentifiers :
              OnlySelected(get_did_by_identifier(db, identifier), SelectedDids,
                           {r \in SelectedDids : DidAt(db, r).identifier = identifier})
        /\ \A name \in DtcNames :
              OnlySelected(get_dtc_by_name(db, name), SelectedDtcs,
                           {r \in SelectedDtcs : DtcAt(db, r).name = name})
        /\ \A identifier \in DtcIdentifiers :
              OnlySelected(get_dtc_by_identifier(db, identifier), SelectedDtcs,
                           {r \in SelectedDtcs : DtcAt(db, r).identifier = identifier})

\* Sport was selected while the Foo of Base had a stale plan: the Foo found
\* by name is the one of Sport, Bits of Base is not found, and the Foo of
\* Base is still stale.
C15_Witness ==
    /\ last.op = "select_variant" /\ last.out.ok
    /\ Len(db.variants) = 5 /\ db.selected_variant = 2
    /\ refresh(DidAt(db, <<1, 1, 1>>)) # DidAt(db, <<1, 1, 1>>)
    /\ DidAt(db, <<2, 2, 1>>).length = 1
    /\ get_did_by_name(db, "Foo") # NoneV /\ get_did_by_name(db, "Foo").ref = <<2, 1, 1>>
    /\ get_did_by_name(db, "Bits") = NoneV

\* C16: add_cdd_string on a well-formed CDD string succeeds, the database
\* then holds the parsed variants, and the variant left selected is the
\* named one, or the first variant when no name was given.
C16_AddCddString ==
    last.op = "add_cdd_string" =>
        /\ last.out.ok
        /\ \A j \in 1..Len(last.arg[1].variants) :
              \E i \in 1..Len(db.variants) : NameOf(db.variants[i]) = Ok(StrV(last.arg[1].variants[j]))
        /\ db.selected_variant \in 1..Len(db.variants)
        /\ NameOf(db.variants[db.selected_variant]) =
              (IF last.arg[2] # "" THEN Ok(StrV(last.arg[2])) ELSE NameOf(db.variants[1]))

\* The positions of the variants of a name.
VariantsNamed(self, variant_name) ==
    {i \in 1..Len(self.variants) : self.variants[i].name = variant_name}

\* C23: select_variant with a name no variant has fails with ValueError and
\* leaves the Database as it was (selected variant, variant list, the four
\* dictionaries); with a name some variant has it selects the first
\* variant of that name in list order.
C23_SelectVariant ==
    [][last'.op = "select_variant" =>
          IF VariantsNamed(db, last'.arg) = {}
          THEN IsErr(last'.out, "ValueError") /\ db' = db
          ELSE /\ db'.selected_variant \in VariantsNamed(db, last'.arg)
               /\ \A i \in VariantsNamed(db, last'.arg) : db'.selected_variant <= i
               /\ db'.variants[db'.selected_variant].name = last'.arg]_vars

\* An unknown name was refused on a database that has a variant selected,
\* filled dictionaries and a Did with a stale plan.
C23_Witness ==
    /\ last.op = "select_variant" /\ IsErr(last.out, "ValueError")
    /\ db.selected_variant = 1
    /\ DOMAIN db.name_to_did = {"Foo", "Bits"}
    /\ refresh(DidAt(db, <<1, 1, 1>>)) # DidAt(db, <<1, 1, 1>>)

\* C24: after select_variant and Database.refresh calls the name dictionary
\* and the identifier dictionary hold the same Dids: the Did found under a
\* name is the one found under its identifier, and the Did found under an
\* identifier is the one found under its name.
C24_IndexesAgree ==
    /\ \A name \in DidNames :
          LET found == get_did_by_name(db, name)
          IN  found # NoneV => get_did_by_identifier(db, found.obj.identifier) = found
    /\ \A identifier \in DidIdentifiers :
          LET found == get_did_by_identifier(db, identifier)
          IN  found # NoneV => get_did_by_name(db, found.obj.name) = found

\* C22: fields built without a sub_elements argument are independent: a
\* sub-field appended to the sub_elements of one field leaves the
\* sub_elements of every other field as it was (so that a later refresh
\* gives no other field a sub-plan).
C22_Independent ==
    [][last'.op = "append" =>
          \A j \in 1..Len(did.datas) :
              j # last'.arg[1] => did'.datas[j].sub_elements = did.datas[j].sub_elements]_vars

\* What the call of a thread returns when it runs alone on the Did.
Alone(rd) ==
    IF rd.op = "encode" THEN encode(did, rd.data, FALSE)
    ELSE decode(did, rd.data, FALSE, FALSE, rd.allow_truncated)

SameOutcome(a, b) ==
    /\ a.ok = b.ok
    /\ IF a.ok THEN a.val = b.val ELSE a.err = b.err /\ a.who = b.who /\ a.num = b.num

\* A call that no refresh overlapped returns what it returns alone, and
\* every _codec object it read is the current one.
Undisturbed ==
    \A r \in Readers :
        LET rd == threads.readers[r]
        IN  (rd.pc = "return" /\ ~rd.overlap) =>
                /\ SameOutcome(rd.out, Alone(rd))
                /\ rd.seen.datas = threads.plan
                /\ rd.seen.formats \in {None, threads.plan}
                /\ \A k \in 1..Len(did.datas) : rd.seen.sub_datas \in {None, threads.sub[k]}

\* C21: encode and decode calls that run concurrently on a Did with no
\* refresh running return what they return alone; a call that a refresh
\* overlaps can read plan parts of different compilations (see the
\* witness).  The writes of a refresh call, made one at a time, add up to
\* Did.refresh.
C21_Race ==
    /\ []Undisturbed
    /\ [][(threads.refresher.pc = "plan" /\ threads'.refresher.pc = "idle") =>
              did' = refresh(did)]_vars

\* A decode entered on a Did whose sub-plan still was the one __init__
\* compiled for X took the field list from the plan of __init__ and the
\* formats from the plan of the first refresh, then read the sub-plan the
\* second refresh had already replaced while the Did's plan was still the
\* one of the first, and returned items of Z.
C21_Witness ==
    \E r \in Readers :
        LET rd == threads.readers[r]
        IN  /\ rd.pc = "return" /\ rd.op = "decode" /\ rd.out.ok
            /\ rd.seen.datas = 0 /\ rd.seen.formats = 1 /\ rd.seen.sub_datas = 2
            /\ threads.plan = 1
            /\ rd.out.val.d["S"] = ListV(<< DictV([n \in {"Z"} |-> IntV(1)]),
                                           DictV([n \in {"Z"} |-> IntV(69)]) >>)

====
